---- MODULE Spec2Model ----
(***************************************************************************)
(* calcular_voronoi of Cidades-main/utils.py as a state machine.           *)
(*                                                                         *)
(* The plane is discretised.  One unit of the study area is 12 model       *)
(* units, so that every Voronoi vertex of the generator sites used here    *)
(* has integer coordinates.  A geometry is the set of the plane locations  *)
(* it contains.  The locations are samples, one per unit square, placed    *)
(* off every bisector of two sites and off every edge of a rectangle of    *)
(* the boundary, so a sample inside a closed cell is inside its interior.  *)
(* For the sites and boundaries below, a bounded cell and a boundary piece *)
(* overlap in a positive area exactly when they share a sample, and none   *)
(* of them only touch.                                                     *)
(***************************************************************************)
EXTENDS Integers, Sequences, FiniteSets, TLC

VARIABLES cafe_coords, boundary_gdf, vor, boundary, voronoi_polygons, origin, it, pc

vars == <<cafe_coords, boundary_gdf, vor, boundary, voronoi_polygons, origin, it, pc>>

(* Largest number of input points (rows of cafe_coords). *)
MaxPoints == 5

----------------------------------------------------------------------------
(* Plane arithmetic on integer coordinate pairs. *)

Cross(o, a, b) == (a[1] - o[1]) * (b[2] - o[2]) - (a[2] - o[2]) * (b[1] - o[1])

Dist2(a, b) == (a[1] - b[1]) * (a[1] - b[1]) + (a[2] - b[2]) * (a[2] - b[2])

Norm2(a) == a[1] * a[1] + a[2] * a[2]

Less(a, b) == a[1] < b[1] \/ (a[1] = b[1] /\ a[2] < b[2])

Range(s) == {s[k] : k \in DOMAIN s}

RECURSIVE Sorted(_)
Sorted(S) ==
    IF S = {} THEN <<>>
    ELSE LET m == CHOOSE x \in S : \A y \in S : x = y \/ Less(x, y)
         IN  <<m>> \o Sorted(S \ {m})

IndexOf(s, x) == CHOOSE k \in DOMAIN s : s[k] = x

(* Python indexing of a list: 0-based, a negative index counts from the end. *)
At(s, i) == IF i < 0 THEN s[Len(s) + 1 + i] ELSE s[i + 1]

----------------------------------------------------------------------------
(* The inputs. *)

(* Generator sites: a triangle (0,0) (4,0) (2,4) and two points inside it,
   (2,2) and (2,1), in model units. *)
Sites == {<<0, 0>>, <<48, 0>>, <<24, 48>>, <<24, 24>>, <<24, 12>>}

Plane == {<<12 * i + 8, 12 * j + 5>> : i \in -2 .. 5, j \in -2 .. 3}

Rect(x0, y0, x1, y1) ==
    [pts   |-> {s \in Plane : x0 <= s[1] /\ s[1] <= x1 /\ y0 <= s[2] /\ s[2] <= y1},
     selfx |-> {}]

(* A malformed but parseable polygon, the ring (8,12) (56,46) (56,12) (8,46):
   two of its edges cross at (32,29), which selfx records; the area it
   encloses is the left and the right quadrant of the cross. *)
BowTie ==
    [pts   |-> {s \in Plane : /\ 8 <= s[1] /\ s[1] <= 56 /\ 12 <= s[2] /\ s[2] <= 46
                               /\ 576 * (s[2] - 29) * (s[2] - 29) <= 289 * (s[1] - 32) * (s[1] - 32)},
     selfx |-> {<<32, 29>>}]

Frame == Rect(-24, -24, 72, 48)

LeftPart == Rect(0, 0, 24, 48)

RightStrip == Rect(44, 0, 60, 48)

FarCorner == Rect(60, 42, 72, 48)

(* The boundary GeoDataFrames tried: the rows of its geometry column. *)
Boundaries ==
    {<<>>, <<Frame>>, <<LeftPart, RightStrip>>, <<FarCorner>>, <<BowTie>>}

PointSeqs == UNION {[1 .. n -> Sites] : n \in 0 .. MaxPoints}

----------------------------------------------------------------------------
(* scipy.spatial.Voronoi(points), with Qhull's default options Qbb Qc Qz. *)

Collinear(D) == \A a \in D, b \in D, c \in D : Cross(a, b, c) = 0

Circumcenter(a, b, c) ==
    LET d  == 2 * Cross(a, b, c)
        ux == Norm2(a) * (b[2] - c[2]) + Norm2(b) * (c[2] - a[2]) + Norm2(c) * (a[2] - b[2])
        uy == Norm2(a) * (c[1] - b[1]) + Norm2(b) * (a[1] - c[1]) + Norm2(c) * (b[1] - a[1])
    IN  <<ux \div d, uy \div d>>

(* The Voronoi vertices: the centres of the circles through three sites
   that hold no site inside. *)
VoronoiVertices(D) ==
    {Circumcenter(t[1], t[2], t[3]) :
        t \in {u \in D \X D \X D :
                  /\ Cross(u[1], u[2], u[3]) > 0
                  /\ LET cc == Circumcenter(u[1], u[2], u[3])
                     IN  \A s \in D : Dist2(s, cc) >= Dist2(u[1], cc)}}

(* A site whose region is unbounded: all sites lie on one side of a line
   through it. *)
OnHull(p, D) ==
    \E q \in D \ {p} : \A r \in D : Cross(p, q, r) >= 0

(* The vertices of a site's region: those it is nearest to. *)
RegionVertices(p, D, V) ==
    {v \in V : \A s \in D : Dist2(v, p) <= Dist2(v, s)}

(* The vertices of a bounded region in counter-clockwise order. *)
RECURSIVE Walk(_, _, _)
Walk(R, first, v) ==
    LET w == CHOOSE x \in R \ {v} : \A y \in R : Cross(v, x, y) >= 0
    IN  IF w = first THEN <<v>> ELSE <<v>> \o Walk(R, first, w)

Ring(R) ==
    IF Cardinality(R) < 3 THEN Sorted(R)
    ELSE LET first == CHOOSE x \in R : \A y \in R : x = y \/ Less(x, y)
         IN  Walk(R, first, first)

(* One region: 0-based indices into vertices, -1 for the vertex at infinity. *)
Region(p, D, vertices) ==
    LET R    == RegionVertices(p, D, Range(vertices))
        ring == IF OnHull(p, D) THEN Sorted(R) ELSE Ring(R)
        idx  == [k \in 1 .. Len(ring) |-> IndexOf(vertices, ring[k]) - 1]
    IN  IF OnHull(p, D) THEN <<-1>> \o idx ELSE idx

(* Qhull fails on an input whose points are all collinear (fewer than three
   distinct points included). *)
QhullFails(points) == Collinear(Range(points))

(* The diagram: regions[0] is the empty region of Qz's point at infinity;
   coincident input points share one region (Qc). *)
Voronoi(points) ==
    LET D        == Range(points)
        vertices == Sorted(VoronoiVertices(D))
        order    == Sorted(D)
    IN  [vertices     |-> vertices,
         regions      |-> <<<<>>>> \o [k \in 1 .. Len(order) |-> Region(order[k], D, vertices)],
         point_region |-> [k \in 1 .. Len(points) |-> IndexOf(order, points[k])]]

----------------------------------------------------------------------------
(* shapely *)

(* A union widened to the bounding box of its parts. *)
unary_union_envelope(geoms) ==
    LET all   == UNION {geoms[k].pts : k \in DOMAIN geoms}
        InBox(s) == /\ (\E a \in all : a[1] <= s[1])
                    /\ (\E b \in all : b[1] >= s[1])
                    /\ (\E c \in all : c[2] <= s[2])
                    /\ (\E d \in all : d[2] >= s[2])
    IN  [pts   |-> {s \in Plane : InBox(s)},
         selfx |-> UNION {geoms[k].selfx : k \in DOMAIN geoms}]

(* unary_union: the set union of the geometries. *)
unary_union(geoms) ==
    [pts   |-> UNION {geoms[k].pts : k \in DOMAIN geoms},
     selfx |-> UNION {geoms[k].selfx : k \in DOMAIN geoms}]

(* Whether the ring through coords encloses s: the crossings of the ring
   with the ray from s towards +x are odd in number. *)
EdgeCrosses(u, v, s) ==
    /\ (u[2] > s[2]) # (v[2] > s[2])
    /\ IF v[2] > u[2]
       THEN (s[1] - u[1]) * (v[2] - u[2]) < (s[2] - u[2]) * (v[1] - u[1])
       ELSE (s[1] - u[1]) * (v[2] - u[2]) > (s[2] - u[2]) * (v[1] - u[1])

Encloses(coords, s) ==
    LET n == Len(coords)
        crossing == {k \in 1 .. n : EdgeCrosses(coords[k], coords[(k % n) + 1], s)}
    IN  Cardinality(crossing) % 2 = 1

Polygon(coords) ==
    [pts   |-> {s \in Plane : Encloses(coords, s)},
     selfx |-> {}]

intersection(g, h) ==
    [pts   |-> g.pts \cap h.pts,
     selfx |-> (g.selfx \cup h.selfx) \cap g.pts \cap h.pts]

is_empty(g) == g.pts = {}

(* The kernel rejects a ring of fewer than three coordinates, and may
   reject an operand whose ring crosses itself inside the other operand. *)
PolygonRejected(coords) == Len(coords) < 3

MayReject(g, h) == (g.selfx \cup h.selfx) \cap g.pts \cap h.pts # {}

----------------------------------------------------------------------------
(* calcular_voronoi *)

NoDiagram == [vertices |-> <<>>, regions |-> <<>>, point_region |-> <<>>]

EmptyGeometry == [pts |-> {}, selfx |-> {}]

Init ==
    /\ cafe_coords \in PointSeqs
    /\ boundary_gdf \in Boundaries
    /\ vor = NoDiagram
    /\ boundary = EmptyGeometry
    /\ voronoi_polygons = <<>>
    /\ origin = <<>>
    /\ it = 0
    /\ pc = "start"

(* vor = Voronoi(cafe_coords) raises. *)
VoronoiRaises ==
    /\ pc = "start"
    /\ QhullFails(cafe_coords)
    /\ pc' = "QhullError"
    /\ UNCHANGED <<cafe_coords, boundary_gdf, vor, boundary, voronoi_polygons, origin, it>>

(* vor = Voronoi(cafe_coords); boundary = unary_union(boundary_gdf.geometry);
   voronoi_polygons = [] *)
Prepare ==
    /\ pc = "start"
    /\ ~QhullFails(cafe_coords)
    /\ vor' = Voronoi(cafe_coords)
    /\ boundary' = unary_union(boundary_gdf)
    /\ voronoi_polygons' = <<>>
    /\ pc' = "loop"
    /\ UNCHANGED <<cafe_coords, boundary_gdf, origin, it>>

(* The region the loop is at, and the coordinates of its vertices. *)
CurrentRegion == At(vor.regions, vor.point_region[it + 1])

(* A test that forgets the vertex at infinity. *)
SkippedEmptyOnly(region) == region = <<>>

(* if not region or -1 in region *)
Skipped(region) == region = <<>> \/ -1 \in Range(region)

(* A vertex lookup that is off by one. *)
PolygonCoordsShifted(region) == [k \in 1 .. Len(region) |-> At(vor.vertices, region[k] - 1)]

(* polygon_coords = [vor.vertices[i] for i in region] *)
PolygonCoords(region) == [k \in 1 .. Len(region) |-> At(vor.vertices, region[k])]

(* A test that keeps every clipped polygon. *)
KeptAlways(clipped_polygon) == TRUE

(* if not clipped_polygon.is_empty *)
Kept(clipped_polygon) == ~is_empty(clipped_polygon)

(* An insertion at the front of the list. *)
EmitFront(list, x) == <<x>> \o list

(* list.append(x) *)
Emit(list, x) == Append(list, x)

(* if not region or -1 in region: continue *)
SkipRegion ==
    /\ pc = "loop"
    /\ it < Len(vor.point_region)
    /\ Skipped(CurrentRegion)
    /\ it' = it + 1
    /\ UNCHANGED <<cafe_coords, boundary_gdf, vor, boundary, voronoi_polygons, origin, pc>>

(* Polygon(...) or polygon.intersection(boundary) raises: nothing catches
   it, the call ends without a result. *)
ClipRaises ==
    /\ pc = "loop"
    /\ it < Len(vor.point_region)
    /\ ~Skipped(CurrentRegion)
    /\ \/ PolygonRejected(PolygonCoords(CurrentRegion))
       \/ MayReject(Polygon(PolygonCoords(CurrentRegion)), boundary)
    /\ pc' = "GEOSException"
    /\ UNCHANGED <<cafe_coords, boundary_gdf, vor, boundary, voronoi_polygons, origin, it>>

(* The rest of the loop body: clip, and append when not empty. *)
ClipRegion ==
    /\ pc = "loop"
    /\ it < Len(vor.point_region)
    /\ ~Skipped(CurrentRegion)
    /\ ~PolygonRejected(PolygonCoords(CurrentRegion))
    /\ LET polygon         == Polygon(PolygonCoords(CurrentRegion))
           clipped_polygon == intersection(polygon, boundary)
       IN  IF Kept(clipped_polygon)
           THEN /\ voronoi_polygons' = Emit(voronoi_polygons, clipped_polygon)
                /\ origin' = Emit(origin, it)
           ELSE UNCHANGED <<voronoi_polygons, origin>>
    /\ it' = it + 1
    /\ UNCHANGED <<cafe_coords, boundary_gdf, vor, boundary, pc>>

(* geo_voronoi = gpd.GeoDataFrame(geometry=voronoi_polygons, ...); return *)
Return ==
    /\ pc = "loop"
    /\ it = Len(vor.point_region)
    /\ pc' = "done"
    /\ UNCHANGED <<cafe_coords, boundary_gdf, vor, boundary, voronoi_polygons, origin, it>>

Next == VoronoiRaises \/ Prepare \/ SkipRegion \/ ClipRaises \/ ClipRegion \/ Return

Spec == Init /\ [][Next]_vars

(* The GeoDataFrame returned: one row per geometry of the list, labelled by
   the default index 0, 1, ... *)
geo_voronoi ==
    [k \in 1 .. Len(voronoi_polygons) |-> [index |-> k - 1, geometry |-> voronoi_polygons[k]]]

----------------------------------------------------------------------------
(* What the claims speak of.  origin records, for each appended polygon,
   the position in cafe_coords (0-based) the loop was at. *)

Done == pc = "done"

N == Len(cafe_coords)

InputSites == Range(cafe_coords)

(* The closed Voronoi cell of input point i (1-based), by its definition:
   the locations at least as near to it as to any other input point. *)
TrueCell(i) ==
    {s \in Plane : \A q \in InputSites : Dist2(s, cafe_coords[i]) <= Dist2(s, q)}

(* The union of the input boundary polygons, from the input. *)
ResolvedBoundary == UNION {boundary_gdf[k].pts : k \in DOMAIN boundary_gdf}

HullPoints == {i \in 1 .. N : OnHull(cafe_coords[i], InputSites)}

(* The input has fewer than four distinct points, or they are collinear. *)
BelowFour == Cardinality(InputSites) < 4 \/ Collinear(InputSites)

----------------------------------------------------------------------------
(* C1: every entry of the output carries the index of the input point
   whose region produced it: the label of row k of the returned frame is
   the position in cafe_coords of the generator of its cell. *)
C1_RowCarriesGenerator ==
    Done => \A k \in DOMAIN geo_voronoi : geo_voronoi[k].index = origin[k]

(* C2: an input with fewer than four distinct, non-collinear points is
   rejected by the call: it never gets past the construction of the
   diagram, and no cell is emitted for it. *)
C2_BelowFourRejected ==
    BelowFour => (pc \in {"start", "QhullError"} /\ voronoi_polygons = <<>>)

(* C3: once the diagram is built the call is total: no failure of building
   or clipping one generator's polygon ends the call without a result. *)
C3_NeverAborts == pc # "GEOSException"

(* C4: the interiors of two distinct entries of one call's output do not
   overlap, duplicate input points included. *)
C4_DisjointInteriors ==
    Done => \A k \in DOMAIN voronoi_polygons, l \in DOMAIN voronoi_polygons :
                k # l => voronoi_polygons[k].pts \cap voronoi_polygons[l].pts = {}

(* C5: an input point on the convex hull of the point set (its region is
   unbounded) never has an entry: no appended polygon comes from it, at any
   step of the loop, and its clipped cell is not among the entries. *)
C5_HullPointsSkipped ==
    \A k \in DOMAIN origin : (origin[k] + 1) \notin HullPoints

C5_Witness ==
    /\ Done
    /\ voronoi_polygons # <<>>
    /\ 1 \in HullPoints
    /\ TrueCell(1) \cap ResolvedBoundary # {}

(* C6: every input point whose region is bounded and whose cell meets the
   resolved boundary has an entry, and that entry is exactly the cell
   intersected with the boundary; a cell inside the boundary is emitted
   unchanged. *)
C6_BoundedCellsEmitted ==
    Done => \A i \in (1 .. N) \ HullPoints :
                TrueCell(i) \cap ResolvedBoundary # {}
                    => \E k \in DOMAIN origin :
                          /\ origin[k] = i - 1
                          /\ voronoi_polygons[k].pts = TrueCell(i) \cap ResolvedBoundary

C6_Witness ==
    /\ Done
    /\ \E k \in DOMAIN origin :
          /\ TrueCell(origin[k] + 1) \subseteq ResolvedBoundary
          /\ voronoi_polygons[k].pts = TrueCell(origin[k] + 1)
          /\ Cardinality(voronoi_polygons[k].pts) > 4
    /\ Len(voronoi_polygons) = 2
    /\ origin[1] + 1 < origin[2]

(* C7: every emitted cell lies within the union of the input boundary
   polygons, which may be disconnected and is never widened. *)
C7_WithinBoundary ==
    \A k \in DOMAIN voronoi_polygons : voronoi_polygons[k].pts \subseteq ResolvedBoundary

C7_Witness ==
    /\ Done
    /\ boundary_gdf = <<LeftPart, RightStrip>>
    /\ \E k \in DOMAIN origin :
          /\ voronoi_polygons[k].pts # {}
          /\ ~(TrueCell(origin[k] + 1) \subseteq ResolvedBoundary)
          /\ TrueCell(origin[k] + 1) \cap (Rect(24, 0, 44, 48).pts) # {}

(* C8: the entries are in input order with strictly increasing generator
   position, one entry at most per input point, a cell of several disjoint
   pieces being one entry. *)
C8_InputOrder ==
    /\ Len(origin) = Len(voronoi_polygons)
    /\ \A k \in DOMAIN origin, l \in DOMAIN origin : k < l => origin[k] < origin[l]

C8_Witness ==
    /\ Done
    /\ boundary_gdf = <<LeftPart, RightStrip>>
    /\ Len(voronoi_polygons) >= 2
    /\ origin[1] > 0
    /\ \E k \in DOMAIN voronoi_polygons :
          /\ voronoi_polygons[k].pts \cap LeftPart.pts # {}
          /\ voronoi_polygons[k].pts \cap RightStrip.pts # {}

(* C9: the number of emitted cells is at most the number of input points
   less those on the convex hull; so it is at most the number of input
   points, and strictly smaller when an input point is on the hull. *)
C9_CountBelowInput ==
    /\ Len(voronoi_polygons) <= N
    /\ (Done /\ voronoi_polygons # <<>>) =>
          /\ Len(voronoi_polygons) + Cardinality(HullPoints) <= N
          /\ HullPoints # {} => Len(voronoi_polygons) < N

C9_Witness ==
    /\ Done
    /\ Len(voronoi_polygons) = 2
    /\ Cardinality(HullPoints) = 3

(* C10: no emitted cell is empty; an input point whose cell does not meet
   the boundary has no entry; with an empty boundary input the call ends
   with no cell and without raising. *)
C10_NoEmptyCell ==
    /\ \A k \in DOMAIN voronoi_polygons : voronoi_polygons[k].pts # {}
    /\ Done => \A k \in DOMAIN origin : TrueCell(origin[k] + 1) \cap ResolvedBoundary # {}
    /\ boundary_gdf = <<>> => (voronoi_polygons = <<>> /\ pc # "GEOSException")

C10_Witness ==
    /\ Done
    /\ HullPoints # 1 .. N
    /\ voronoi_polygons = <<>>
    /\ boundary_gdf \in {<<>>, <<FarCorner>>}

====
